---- MODULE Spec2Model ----
(***************************************************************************)
(* Model of packages/mermaid/src/mermaid.ts: the serialized execution      *)
(* queue behind mermaid.parse / mermaid.render, the element scan of        *)
(* mermaid.run, and the error normalisation of handleError.                *)
(*                                                                         *)
(* JavaScript is single threaded: every action below is one synchronous    *)
(* block of the program (a public call up to its first suspension, or one  *)
(* promise reaction job).  Promise reactions are run from the FIFO `jobs`  *)
(* (the microtask queue).                                                  *)
(***************************************************************************)
EXTENDS Integers, Sequences, FiniteSets, TLC

\* ---- bounds -------------------------------------------------------------
MaxCalls == 3        \* public calls (parse / render / run) made in one behaviour
MaxRuns == 2         \* those of them that are run()
NumElements == 2     \* elements of the document

Calls == 1..MaxCalls
Elements == 1..NumElements

\* ---- values -------------------------------------------------------------
Shapes == {"detailed", "Error", "other"}
HookBehaviours == {"none", "returns", "throws"}
NormalHooks == {"none", "returns"}

\* A failure value raised at `tag` for call c and element e (0: no element).
\* "detailed": an object { str, hash }; "Error": an Error instance
\* (message, name); "other": anything else, e.g. a thrown string.
Failure(shape, tag, c, e) ==
  CASE shape = "detailed" -> [str |-> <<"str", tag, c, e>>, hash |-> <<"hash", tag, c, e>>]
    [] shape = "Error" -> [message |-> <<"message", tag, c, e>>, name |-> <<"name", tag, c, e>>]
    [] OTHER -> [val |-> <<"val", tag, c, e>>]

NoValue == [nothing |-> <<"nothing", "", 0, 0>>]

\* What a raising hook raises.
HookFailure(c) == [val |-> <<"val", "hook", c, 0>>]

\* utils.isDetailedError: the value has a `str` member.
isDetailedError(error) == "str" \in DOMAIN error

\* error instanceof Error
isError(error) == {"message", "name"} \subseteq DOMAIN error

\* Result of an engine call: ok with a value, or a failure.
Outcome(ok, value) == [ok |-> ok, value |-> value]

\* The value mermaidAPI.parse / mermaidAPI.render resolves with for unit c.
EngineValue(c) == [r |-> <<"result", "unit", c, 0>>]

\* A promise: pending, fulfilled with a value or rejected with a reason.
Promise(state, value) == [state |-> state, value |-> value]
NoPromise == Promise("none", NoValue)
Pending == Promise("pending", NoValue)
Settled(p) == p.state \in {"fulfilled", "rejected"}

VARIABLES
  ncalls,                 \* public calls made so far; call c is the c-th one
  op,                     \* op[c]: "parse", "render" or "run" ("none": not made yet)
  caller,                 \* caller[c]: the promise the public call returned
  parseError,             \* mermaid.parseError: the behaviour of the registered hook
  executionQueue,         \* pending units, by call number
  executionQueueRunning,
  awaited,                \* units f whose `await f()` suspends an executeQueue loop
  inner,                  \* inner[c]: the promise performCall returned (res / rej)
  engine,                 \* engine calls started and not yet settled: <<c, e>>
  jobs,                   \* promise reaction jobs, FIFO
  qtrace,                 \* history: what the queue's units did, in order
  processed,              \* processed[e]: the data-processed attribute is set
  content,                \* content[e]: innerHTML
  runs,                   \* runs[c]: the frame of runThrowsErrors for call c
  rlog                    \* history: rlog[c], what run call c did, in order

vars == <<ncalls, op, caller, parseError, executionQueue, executionQueueRunning,
          awaited, inner, engine, jobs, qtrace, processed, content, runs, rlog>>

Event(ev, c, arg) == [ev |-> ev, unit |-> c, arg |-> arg]

\* ---- the execution queue (executeQueue) ---------------------------------

\* executionQueue.shift()
ShiftLast(q) == [f |-> q[Len(q)], rest |-> SubSeq(q, 1, Len(q) - 1)]
Shift(q) == [f |-> Head(q), rest |-> Tail(q)]

\* `if (executionQueueRunning) return;`
GuardIgnoresFlag(running) == FALSE
AlreadyRunning(running) == running

\* `executionQueueRunning = false;` after the loop
FlagLeftSet == TRUE
FlagAfterLoop == FALSE

\* The body of executeQueue from the `while` test up to the next suspension:
\* either it shifts a unit, calls it (performCall starts the engine call at
\* once) and suspends in `await f()`, or the queue is empty and it clears
\* the flag.  Yields the new values of the queue's variables.
ClearsFlagEarly(q, aw, inn, eng, tr) ==
  IF Len(q) > 0
    THEN LET s == Shift(q) IN
         [queue |-> s.rest, running |-> Len(s.rest) > 0, awaited |-> aw \cup {s.f},
          inner |-> [inn EXCEPT ![s.f] = Pending],
          engine |-> eng \cup {<<s.f, 0>>},
          trace |-> Append(tr, Event("start", s.f, NoValue))]
    ELSE [queue |-> q, running |-> FlagAfterLoop, awaited |-> aw, inner |-> inn,
          engine |-> eng, trace |-> tr]
LoopIteration(q, aw, inn, eng, tr) ==
  IF Len(q) > 0
    THEN LET s == Shift(q) IN
         [queue |-> s.rest, running |-> TRUE, awaited |-> aw \cup {s.f},
          inner |-> [inn EXCEPT ![s.f] = Pending],
          engine |-> eng \cup {<<s.f, 0>>},
          trace |-> Append(tr, Event("start", s.f, NoValue))]
    ELSE [queue |-> q, running |-> FlagAfterLoop, awaited |-> aw, inner |-> inn,
          engine |-> eng, trace |-> tr]

\* executeQueue() called with the queue q.
executeQueue(q, tr) ==
  IF AlreadyRunning(executionQueueRunning)
    THEN /\ executionQueue' = q
         /\ qtrace' = tr
         /\ UNCHANGED <<executionQueueRunning, awaited, inner, engine>>
    ELSE LET n == LoopIteration(q, awaited, inner, engine, tr) IN
         /\ executionQueue' = n.queue
         /\ executionQueueRunning' = n.running
         /\ awaited' = n.awaited
         /\ inner' = n.inner
         /\ engine' = n.engine
         /\ qtrace' = n.trace

\* mermaid.parse(text) / mermaid.render(id, text): the promise executor builds
\* performCall, pushes it and calls executeQueue().
Submit(kind) ==
  /\ ncalls < MaxCalls
  /\ LET c == ncalls + 1 IN
     /\ ncalls' = c
     /\ op' = [op EXCEPT ![c] = kind]
     /\ caller' = [caller EXCEPT ![c] = Pending]
     /\ executeQueue(Append(executionQueue, c), Append(qtrace, Event("submit", c, NoValue)))
  /\ UNCHANGED <<parseError, jobs, processed, content, runs, rlog>>

parse == Submit("parse")
render == Submit("render")

\* mermaid.setParseErrorHandler(h) (or an assignment to mermaid.parseError).
setParseErrorHandler(h) ==
  /\ parseError # h
  /\ parseError' = h
  /\ UNCHANGED <<ncalls, op, caller, executionQueue, executionQueueRunning, awaited,
                 inner, engine, jobs, qtrace, processed, content, runs, rlog>>

\* The engine settles one of its calls in flight: the reaction registered on
\* its promise becomes a job.  A render for run() may hand back bindFunctions.
BindBehaviours == {"none", "returns", "throws"}
\* The queue never looks into a failure: one shape of it is drawn.
UnitOutcomes(c) ==
  {Outcome(TRUE, EngineValue(c)), Outcome(FALSE, Failure("Error", "engine", c, 0))}
ElementOutcomes(c, e) ==
  {Outcome(TRUE, [svg |-> <<"svg", "engine", c, e>>, bindFunctions |-> b]) : b \in BindBehaviours}
    \cup {Outcome(FALSE, Failure(sh, "engine", c, e)) : sh \in Shapes}

Job(type, c, e, out) == [type |-> type, c |-> c, e |-> e, out |-> out]

EngineSettle ==
  \E call \in engine :
    \E out \in (IF call[2] = 0 THEN UnitOutcomes(call[1]) ELSE ElementOutcomes(call[1], call[2])) :
      /\ engine' = engine \ {call}
      /\ jobs' = Append(jobs, Job("then", call[1], call[2], out))
      /\ UNCHANGED <<ncalls, op, caller, parseError, executionQueue, executionQueueRunning,
                     awaited, inner, qtrace, processed, content, runs, rlog>>

\* resolve(r) / reject(e) on a promise: only a pending promise changes.
Settle(p, state, value) == IF p.state = "pending" THEN Promise(state, value) ELSE p

\* resolve(r) / reject(e) of the caller's promise, called by the reaction.
CallerLeftPending(p, state, value) == p
SettleCaller(p, state, value) == Settle(p, state, value)

\* The resolve / reject closed over by performCall are those of the promise
\* returned to the caller of this very parse() / render().
CallerOf(c) == c

\* The two reactions of performCall on the engine's promise, as the calls
\* they make, in order.  "hook" is `mermaid.parseError?.(e)`.
HookAfterReject == <<"rej", "reject", "hook">>
OnRejected == <<"hook", "rej", "reject">>
OnFulfilled == <<"res", "resolve">>

\* The job that runs the reaction for unit c: its calls are made in order,
\* up to and including a hook call that raises.
QueueThen(c, out) ==
  LET body == IF out.ok THEN OnFulfilled ELSE OnRejected
      raising == {i \in 1..Len(body) : body[i] = "hook" /\ parseError = "throws"}
      last == IF raising = {} THEN Len(body)
              ELSE CHOOSE i \in raising : \A k \in raising : i <= k
      made == SubSeq(body, 1, last)
      Made(call) == \E i \in 1..Len(made) : made[i] = call
      target == CallerOf(c)
      state == IF out.ok THEN "fulfilled" ELSE "rejected"
      newInner == IF Made("res") \/ Made("rej") THEN Settle(inner[c], state, out.value)
                  ELSE inner[c]
      newCaller == IF Made("resolve") \/ Made("reject")
                     THEN SettleCaller(caller[target], state, out.value)
                     ELSE caller[target]
      Effective(call) ==
        CASE call = "hook" -> parseError # "none"
          [] call \in {"res", "rej"} -> newInner # inner[c]
          [] OTHER -> newCaller # caller[target]
      events == [i \in 1..Len(made) |->
                   Event(made[i], IF made[i] \in {"resolve", "reject"} THEN target ELSE c,
                         out.value)]
  IN /\ inner' = [inner EXCEPT ![c] = newInner]
     /\ caller' = [caller EXCEPT ![target] = newCaller]
     /\ qtrace' = qtrace \o SelectSeq(events, LAMBDA ev : Effective(ev.ev))
     /\ jobs' = IF newInner # inner[c] /\ c \in awaited
                  THEN Append(Tail(jobs), Job("resume", c, 0, out))
                  ELSE Tail(jobs)
     /\ UNCHANGED <<ncalls, op, parseError, executionQueue, executionQueueRunning, awaited,
                    engine, processed, content, runs, rlog>>

\* executeQueue resumes after `await f()` (fulfilled, or rejected and caught
\* and logged) and goes round the loop.
QueueResume(c) ==
  LET n == LoopIteration(executionQueue, awaited \ {c}, inner, engine, qtrace) IN
  /\ executionQueue' = n.queue
  /\ executionQueueRunning' = n.running
  /\ awaited' = n.awaited
  /\ inner' = n.inner
  /\ engine' = n.engine
  /\ qtrace' = n.trace
  /\ jobs' = Tail(jobs)
  /\ UNCHANGED <<ncalls, op, caller, parseError, processed, content, runs, rlog>>

\* ---- run / runThrowsErrors / handleError --------------------------------

Undefined == <<>>

\* The innerHTML element e has in the document as loaded: its diagram text.
Source(e) == <<"source", "document", 0, e>>
AllElements == [e \in Elements |-> e]

\* document.querySelectorAll(querySelector): every element, in document order.
querySelectorAll == AllElements

\* Explicit node lists a caller may pass: runs of the document's elements.
NodeLists == {SubSeq(AllElements, a, b) : a \in Elements, b \in Elements} \ {<<>>}

Options(omitted, hasNodes, nodes, querySelector, postRenderCallback, suppressErrors) ==
  [omitted |-> omitted, hasNodes |-> hasNodes, nodes |-> nodes,
   querySelector |-> querySelector, postRenderCallback |-> postRenderCallback,
   suppressErrors |-> suppressErrors]

\* `options: RunOptions = { querySelector: '.mermaid' }`
DefaultOptions == Options(FALSE, FALSE, Undefined, TRUE, FALSE, FALSE)

\* What a caller may pass to run(): nothing, or an options object.
NoArgument == Options(TRUE, FALSE, Undefined, FALSE, FALSE, FALSE)
RunArguments ==
  {NoArgument}
    \cup {Options(FALSE, TRUE, l, FALSE, FALSE, su) : l \in NodeLists, su \in BOOLEAN}
    \cup {Options(FALSE, FALSE, Undefined, TRUE, cb, su) : cb \in BOOLEAN, su \in BOOLEAN}
    \cup {Options(FALSE, FALSE, Undefined, FALSE, FALSE, su) : su \in BOOLEAN}

RECURSIVE Decimal(_)
Decimal(n) == IF n < 10 THEN <<n>> ELSE Append(Decimal(n \div 10), n % 10)

\* conf.deterministicIDSeed, with conf.deterministicIds set: the characters
\* of the seed, here digits.
deterministicIDSeed == <<4, 2>>

\* idGenerator.next() of a generator that has been asked k times before: the
\* seed followed by the counter.
IdGeneratorNext(k) == deterministicIDSeed \o Decimal(k)

\* `mermaid-${suffix}`
MermaidId(suffix) == [prefix |-> "mermaid-", suffix |-> suffix]

\* const id = `mermaid-${idGenerator.next()}` in the frame fr, whose
\* generator has been asked fr.nid times.
StaleId(fr) == MermaidId(IdGeneratorNext(0))
NewId(fr) == MermaidId(IdGeneratorNext(fr.nid))

Frame(pc, opts, nodes, i, errors, nid, bind, thrown) ==
  [pc |-> pc, opts |-> opts, nodes |-> nodes, i |-> i, errors |-> errors,
   nid |-> nid, bind |-> bind, thrown |-> thrown]
NoFrame == Frame("none", DefaultOptions, <<>>, 0, <<>>, 0, "none", NoValue)

REvent(ev, e, arg) == [ev |-> ev, el |-> e, arg |-> arg]

\* handleError(error, errors, parseError) with the hook behaving as h: the
\* hook calls made, the new errors, and whether the hook raised.
CollectsUnrecognised(error, errors, h) ==
  [hook |-> IF h = "none" THEN <<>>
            ELSE IF isDetailedError(error) THEN << <<error.str, error.hash>> >>
            ELSE << <<error>> >>,
   raised |-> h = "throws",
   errors |-> IF h = "throws" THEN errors
              ELSE IF isDetailedError(error)
                THEN Append(errors, [str |-> error.str, hash |-> error.hash,
                                     message |-> error.str, error |-> error])
              ELSE IF isError(error)
                THEN Append(errors, [str |-> error.message, message |-> error.message,
                                     hash |-> error.name, error |-> error])
              ELSE Append(errors, [str |-> error.val, message |-> error.val,
                                   hash |-> error.val, error |-> error])]
HookGetsFailureOnly(error, errors, h) ==
  [hook |-> IF h = "none" THEN <<>> ELSE << <<error>> >>,
   raised |-> h = "throws",
   errors |-> IF h = "throws" THEN errors
              ELSE IF isDetailedError(error)
                THEN Append(errors, [str |-> error.str, hash |-> error.hash,
                                     message |-> error.str, error |-> error])
              ELSE IF isError(error)
                THEN Append(errors, [str |-> error.message, message |-> error.message,
                                     hash |-> error.message, error |-> error])
              ELSE errors]
handleError(error, errors, h) ==
  [hook |-> IF h = "none" THEN <<>>
            ELSE IF isDetailedError(error) THEN << <<error.str, error.hash>> >>
            ELSE << <<error>> >>,
   raised |-> h = "throws",
   errors |-> IF h = "throws" THEN errors
              ELSE IF isDetailedError(error)
                THEN Append(errors, [str |-> error.str, hash |-> error.hash,
                                     message |-> error.str, error |-> error])
              ELSE IF isError(error)
                THEN Append(errors, [str |-> error.message, message |-> error.message,
                                     hash |-> error.name, error |-> error])
              ELSE errors]

\* `if (element.getAttribute('data-processed')) continue;`
IgnoresMarker(proc, e) == FALSE
AlreadyProcessed(proc, e) == proc[e]

\* element.setAttribute('data-processed', 'true')
LeavesUnmarked(proc, e) == proc
MarkProcessed(proc, e) == [proc EXCEPT ![e] = TRUE]

\* `throw errors[0];`
LastError(errors) == errors[Len(errors)]
FirstError(errors) == errors[1]

\* The first index from `from` on of an element the for loop does not skip (0: none).
NextToProcess(nodes, from) ==
  LET S == {j \in from..Len(nodes) : ~AlreadyProcessed(processed, nodes[j])} IN
  IF S = {} THEN 0 ELSE CHOOSE j \in S : \A k \in S : j <= k

\* What one synchronous stretch of runThrowsErrors for call c leaves behind.
Result(fr, proc, cont, eng, log, js) ==
  [frame |-> fr, processed |-> proc, content |-> cont, engine |-> eng, log |-> log, jobs |-> js]

\* runThrowsErrors ends, raising `thrown` (NoValue: returns): the `await` in
\* run() is resumed by a job.
Finish(c, fr, thrown, cont, log, js) ==
  Result([fr EXCEPT !.pc = "return", !.thrown = thrown, !.bind = "none"],
         processed, cont, engine, log,
         Append(js, Job("return", c, 0, Outcome(thrown = NoValue, thrown))))

\* The for loop of runThrowsErrors from index `from` up to its next
\* suspension: skip the processed elements, then either mark the next one,
\* take an id and start its engine render, or leave the loop and raise the
\* first collected error, if any.
Scan(c, fr, from, cont, log, js) ==
  LET j == NextToProcess(fr.nodes, from) IN
  IF j # 0
    THEN LET e == fr.nodes[j] IN
         Result([fr EXCEPT !.pc = "render", !.i = j, !.nid = @ + 1, !.bind = "none"],
                MarkProcessed(processed, e), cont, engine \cup {<<c, e>>},
                Append(log, REvent("render", e, [id |-> NewId(fr)])), js)
    ELSE Finish(c, fr, IF Len(fr.errors) > 0 THEN FirstError(fr.errors) ELSE NoValue,
                cont, log, js)

\* `catch (error) { handleError(error, errors, mermaid.parseError); }`, then
\* on round the loop; a raising hook ends runThrowsErrors with what it raised.
Caught(c, fr, error, cont, log, js) ==
  LET h == handleError(error, fr.errors, parseError)
      e == fr.nodes[fr.i]
      log2 == Append(log, REvent("caught", e, error))
                \o [k \in 1..Len(h.hook) |-> REvent("hook", e, [args |-> h.hook[k]])]
  IN IF h.raised
       THEN Finish(c, fr, HookFailure(c), cont, log2, js)
       ELSE Scan(c, [fr EXCEPT !.errors = h.errors], fr.i + 1, cont, log2, js)

\* `if (bindFunctions) bindFunctions(element);`, then on round the loop.
Bind(c, fr, cont, log, js) ==
  IF fr.bind = "throws"
    THEN Caught(c, fr, Failure("Error", "bind", c, fr.nodes[fr.i]), cont, log, js)
    ELSE Scan(c, fr, fr.i + 1, cont, log, js)

\* runThrowsErrors(options) from its call to its first suspension: the nodes
\* are resolved (or it raises), then the loop is entered.
StartDefaultsSelector(c, options) ==
  LET fr == Frame("start", options, <<>>, 0, <<>>, 0, "none", NoValue) IN
  IF options.hasNodes
    THEN Scan(c, [fr EXCEPT !.nodes = options.nodes], 1, content, <<>>, jobs)
    ELSE Scan(c, [fr EXCEPT !.nodes = querySelectorAll], 1, content, <<>>, jobs)
Start(c, options) ==
  LET fr == Frame("start", options, <<>>, 0, <<>>, 0, "none", NoValue) IN
  IF options.hasNodes
    THEN Scan(c, [fr EXCEPT !.nodes = options.nodes], 1, content, <<>>, jobs)
  ELSE IF options.querySelector
    THEN Scan(c, [fr EXCEPT !.nodes = querySelectorAll], 1, content, <<>>, jobs)
  ELSE Finish(c, fr, Failure("Error", "Nodes and querySelector are both undefined", 0, 0),
              content, <<>>, jobs)

\* What the callback's promise may settle with.
CallbackOutcomes(c, e) ==
  {Outcome(TRUE, NoValue), Outcome(FALSE, Failure("Error", "callback", c, e))}

\* runThrowsErrors resumes after `await mermaidAPI.render(id, txt, element)`.
\* Fulfilled: the svg replaces the content, then the callback is called and
\* awaited (cb: what it will settle with) or the binding is made.  Rejected:
\* the catch block.
AfterRender(c, fr0, e, out, cb) ==
  LET fr == [fr0 EXCEPT !.bind = IF out.ok THEN out.value.bindFunctions ELSE "none"]
      log == Append(rlog[c], REvent("settled", e,
                                    Outcome(out.ok, IF out.ok THEN [svg |-> out.value.svg]
                                                    ELSE out.value)))
      cont == IF out.ok THEN [content EXCEPT ![e] = out.value.svg] ELSE content
  IN IF ~out.ok THEN Caught(c, fr, out.value, cont, log, Tail(jobs))
     ELSE IF fr.opts.postRenderCallback
       THEN Result([fr EXCEPT !.pc = "callback"], processed, cont, engine, log,
                   Append(Tail(jobs), Job("callback", c, e, cb)))
     ELSE Bind(c, fr, cont, log, Tail(jobs))

\* runThrowsErrors resumes after `await postRenderCallback(id)`.
CallbackFatal(c, fr, out) ==
  IF out.ok THEN Bind(c, fr, content, rlog[c], Tail(jobs))
  ELSE Finish(c, fr, out.value, content,
              Append(rlog[c], REvent("caught", fr.nodes[fr.i], out.value)), Tail(jobs))
AfterCallback(c, fr, out) ==
  IF out.ok THEN Bind(c, fr, content, rlog[c], Tail(jobs))
  ELSE Caught(c, fr, out.value, content, rlog[c], Tail(jobs))

Apply(c, n) ==
  /\ runs' = [runs EXCEPT ![c] = n.frame]
  /\ processed' = n.processed
  /\ content' = n.content
  /\ engine' = n.engine
  /\ rlog' = [rlog EXCEPT ![c] = n.log]
  /\ jobs' = n.jobs

\* mermaid.run(arg): run() calls runThrowsErrors and awaits it.
run(arg) ==
  /\ ncalls < MaxCalls
  /\ Cardinality({c \in Calls : op[c] = "run"}) < MaxRuns
  /\ LET c == ncalls + 1 IN
     /\ ncalls' = c
     /\ op' = [op EXCEPT ![c] = "run"]
     /\ caller' = [caller EXCEPT ![c] = Pending]
     /\ Apply(c, Start(c, IF arg.omitted THEN DefaultOptions ELSE arg))
  /\ UNCHANGED <<parseError, executionQueue, executionQueueRunning, awaited, inner, qtrace>>

RunThen(c, e, out) ==
  /\ \E cb \in CallbackOutcomes(c, e) : Apply(c, AfterRender(c, runs[c], e, out, cb))
  /\ UNCHANGED <<ncalls, op, caller, parseError, executionQueue, executionQueueRunning,
                 awaited, inner, qtrace>>

RunCallback(c, e, out) ==
  /\ Apply(c, AfterCallback(c, runs[c], out))
  /\ UNCHANGED <<ncalls, op, caller, parseError, executionQueue, executionQueueRunning,
                 awaited, inner, qtrace>>

\* `if (!options.suppressErrors) throw e;`
AlwaysThrows(options) == TRUE
Rethrows(options) == ~options.suppressErrors

\* run() after `await runThrowsErrors(options)`: it returns, or its catch
\* block calls the hook, if any, and rethrows unless suppressed.  Yields the
\* hook calls made and what run()'s promise settles with.
NoHookInCatch(c, fr, out) ==
  [hook |-> <<>>,
   promise |-> IF out.ok THEN Promise("fulfilled", NoValue)
               ELSE IF Rethrows(fr.opts) THEN Promise("rejected", out.value)
               ELSE Promise("fulfilled", NoValue)]
AfterRunThrowsErrors(c, fr, out) ==
  [hook |-> IF ~out.ok /\ parseError # "none"
              THEN <<REvent("hook", 0, [args |-> <<out.value>>])>> ELSE <<>>,
   promise |-> IF out.ok THEN Promise("fulfilled", NoValue)
               ELSE IF parseError = "throws" THEN Promise("rejected", HookFailure(c))
               ELSE IF Rethrows(fr.opts) THEN Promise("rejected", out.value)
               ELSE Promise("fulfilled", NoValue)]

RunReturn(c, out) ==
  LET n == AfterRunThrowsErrors(c, runs[c], out) IN
  /\ runs' = [runs EXCEPT ![c].pc = "done"]
  /\ rlog' = [rlog EXCEPT ![c] = @ \o n.hook]
  /\ caller' = [caller EXCEPT ![c] = Settle(@, n.promise.state, n.promise.value)]
  /\ jobs' = Tail(jobs)
  /\ UNCHANGED <<ncalls, op, parseError, executionQueue, executionQueueRunning, awaited,
                 inner, engine, qtrace, processed, content>>

\* ---- the specification --------------------------------------------------

\* The job at the head of the microtask queue runs.
RunJob ==
  /\ jobs # <<>>
  /\ LET j == Head(jobs) IN
     CASE j.type = "then" /\ j.e = 0 -> QueueThen(j.c, j.out)
       [] j.type = "then" /\ j.e # 0 -> RunThen(j.c, j.e, j.out)
       [] j.type = "resume" -> QueueResume(j.c)
       [] j.type = "callback" -> RunCallback(j.c, j.e, j.out)
       [] j.type = "return" -> RunReturn(j.c, j.out)

Init ==
  /\ ncalls = 0
  /\ op = [c \in Calls |-> "none"]
  /\ caller = [c \in Calls |-> NoPromise]
  /\ parseError = "none"
  /\ executionQueue = <<>>
  /\ executionQueueRunning = FALSE
  /\ awaited = {}
  /\ inner = [c \in Calls |-> NoPromise]
  /\ engine = {}
  /\ jobs = <<>>
  /\ qtrace = <<>>
  /\ processed = [e \in Elements |-> FALSE]
  /\ content = [e \in Elements |-> Source(e)]
  /\ runs = [c \in Calls |-> NoFrame]
  /\ rlog = [c \in Calls |-> <<>>]

\* The queue alone: parse() and render() callers, the engine, the hook.
QueueStep(hooks) ==
  \/ parse
  \/ render
  \/ \E h \in hooks : setParseErrorHandler(h)
  \/ EngineSettle
  \/ RunJob

QueueNext == QueueStep(HookBehaviours)
QueueSpec == Init /\ [][QueueNext]_vars

\* run() alone.
ScanNext ==
  \/ \E arg \in RunArguments : run(arg)
  \/ \E h \in HookBehaviours : setParseErrorHandler(h)
  \/ EngineSettle
  \/ RunJob

ScanSpec == Init /\ [][ScanNext]_vars

\* run() alone, called once a hook that returns has been registered; the
\* hook stays.
HookedScanNext ==
  \/ setParseErrorHandler("returns")
  \/ parseError = "returns" /\ \E arg \in RunArguments : run(arg)
  \/ EngineSettle
  \/ RunJob

HookedScanSpec == Init /\ [][HookedScanNext]_vars

\* The three public operations together; run() is called as contentLoaded
\* calls it, without options.
Next ==
  \/ parse
  \/ render
  \/ run(NoArgument)
  \/ \E h \in HookBehaviours : setParseErrorHandler(h)
  \/ EngineSettle
  \/ RunJob

Spec == Init /\ [][Next]_vars

\* The queue under a hook that returns, with the fairness the claim of
\* liveness assumes: the job at the head of the microtask queue is run, and
\* every engine call settles.
LiveQueueSpec ==
  Init /\ [][QueueStep(NormalHooks)]_vars /\ WF_vars(RunJob) /\ WF_vars(EngineSettle)

\* ---- properties ---------------------------------------------------------

QueueUnits == {c \in Calls : op[c] \in {"parse", "render"}}
Positions(evs, c) == {p \in 1..Len(qtrace) : qtrace[p].ev \in evs /\ qtrace[p].unit = c}
Starts == SelectSeq(qtrace, LAMBDA x : x.ev = "start")
Quiescent == engine = {} /\ jobs = <<>>

\* C1: engine calls of the queued units start in the order of submission:
\* the i-th engine call to start is that of the i-th unit submitted.
C1_StartsInSubmissionOrder ==
  \A i \in 1..Len(Starts) :
    Cardinality({u \in QueueUnits : u < Starts[i].unit}) = i - 1

\* Three units: the second and third were submitted while the first was in
\* the engine, and all three engine calls have started.
C1_Witness ==
  \E a, b, d \in QueueUnits :
    /\ a < b /\ b < d
    /\ \E s \in Positions({"submit"}, d), r \in Positions({"res", "rej"}, a),
          t \in Positions({"start"}, d) : s < r /\ r < t

\* C2: at most one queued unit has an engine call in flight.
C2_SingleFlight == Cardinality({call \in engine : call[2] = 0}) <= 1

\* A unit is in the engine while two more wait in the queue.
C2_Witness ==
  /\ \E call \in engine : call[2] = 0
  /\ Len(executionQueue) >= 2
  /\ executionQueueRunning

\* C3: no two engine calls are in flight at once, whichever of run(),
\* parse() and render() made them.
C3_OneEngineCallAtATime == Cardinality(engine) <= 1

EngineFailed(c) == Positions({"hook", "rej"}, c) # {}
OwnResult(c) ==
  \/ caller[c] = Promise("fulfilled", EngineValue(c)) /\ Positions({"res"}, c) # {}
  \/ caller[c] = Promise("rejected", Failure("Error", "engine", c, 0)) /\ EngineFailed(c)

\* C5: whenever nothing is left to run, a unit whose engine call failed has
\* rejected its own caller with that failure, and every unit submitted after
\* it has settled its own caller with its own result; no caller ever gets
\* another unit's result.
C5_FailureIsolated ==
  /\ \A c \in QueueUnits : Settled(caller[c]) => OwnResult(c)
  /\ Quiescent =>
       \A a \in QueueUnits :
         EngineFailed(a) =>
           /\ caller[a] = Promise("rejected", Failure("Error", "engine", a, 0))
           /\ \A b \in QueueUnits : a < b => Settled(caller[b])

Started(c) == Positions({"start"}, c) # {}
Idle == executionQueue = <<>> /\ ~executionQueueRunning

\* C6: under a hook that returns and an engine that settles every call,
\* every submitted unit gets its engine call started and its caller settled,
\* the queue is empty with the flag cleared again and again, and no unit is
\* started twice.
C6_EveryUnitRuns ==
  /\ \A c \in Calls : (c \in QueueUnits) ~> (Started(c) /\ Settled(caller[c]))
  /\ []<>Idle
  /\ [](\A c \in Calls : Cardinality(Positions({"start"}, c)) <= 1)

\* Every call of the behaviour was a unit, one of them failed, all are
\* settled and the loop has stopped.
C6_Witness ==
  /\ ncalls = MaxCalls
  /\ \A c \in Calls : c \in QueueUnits /\ Settled(caller[c]) /\ Started(c)
  /\ \E c \in Calls : caller[c].state = "rejected"
  /\ Idle /\ Quiescent

NewEvents(evs, c) ==
  {p \in (Len(qtrace) + 1)..Len(qtrace') : qtrace'[p].ev \in evs /\ qtrace'[p].unit = c}

\* C7: the reaction that rejects a unit's caller while a hook is registered
\* has called the hook with that failure first; a unit whose engine call
\* succeeded never has the hook called; and the hook call of a unit comes
\* before the engine call of any later unit starts.
C7_HookBeforeReject ==
  /\ [][\A c \in Calls :
          (c \in QueueUnits /\ caller[c].state = "pending" /\ caller'[c].state = "rejected"
             /\ parseError # "none")
            => \E h \in NewEvents({"hook"}, c) :
                 /\ qtrace'[h].arg = caller'[c].value
                 /\ \A r \in NewEvents({"reject"}, c) : h < r]_vars
  /\ [](\A c \in QueueUnits :
          /\ Positions({"res"}, c) # {} => Positions({"hook"}, c) = {}
          /\ \A h \in Positions({"hook"}, c) :
               \A b \in QueueUnits :
                 c < b => \A t \in Positions({"start"}, b) : h < t)

\* A hook call for a unit, then its caller's rejection, then the next start.
C7_Witness ==
  \E a, b \in QueueUnits :
    /\ a < b
    /\ \E h \in Positions({"hook"}, a), r \in Positions({"reject"}, a),
          t \in Positions({"start"}, b) : h < r /\ r < t

\* ---- properties of run() ------------------------------------------------

RunCalls == {c \in Calls : op[c] = "run"}
Done(c) == c \in RunCalls /\ runs[c].pc = "done"
Resolved(fr) == fr.opts.hasNodes \/ fr.opts.querySelector
Listed(c) == {runs[c].nodes[k] : k \in 1..Len(runs[c].nodes)}
Logged(evs, c) == SelectSeq(rlog[c], LAMBDA x : x.ev \in evs)
LoggedFor(evs, c, e) == SelectSeq(rlog[c], LAMBDA x : x.ev \in evs /\ x.el = e)
Rendered(c) == {e \in Elements : LoggedFor({"render"}, c, e) # <<>>}
RenderCalls(e) ==
  UNION {{<<c, p>> : p \in {q \in 1..Len(rlog[c]) :
                              rlog[c][q].ev = "render" /\ rlog[c][q].el = e}} : c \in Calls}

\* C8: over all the run() calls of a behaviour the engine's render is called
\* at most once for each element; a run() that finds every element of its
\* list marked starts no engine call, changes no content or marker, calls no
\* hook, and returns normally.
C8_RenderedAtMostOnce ==
  /\ [](\A e \in Elements : Cardinality(RenderCalls(e)) <= 1)
  /\ [][\A c \in Calls :
          (op[c] = "none" /\ op'[c] = "run" /\ Resolved(runs'[c])
             /\ \A k \in 1..Len(runs'[c].nodes) : processed[runs'[c].nodes[k]])
            => /\ engine' = engine
               /\ content' = content
               /\ processed' = processed
               /\ rlog'[c] = <<>>
               /\ runs'[c].pc = "return"
               /\ runs'[c].thrown = NoValue]_vars
  /\ [](\A c \in Calls :
          (Done(c) /\ Resolved(runs[c]) /\ Rendered(c) = {})
            => caller[c] = Promise("fulfilled", NoValue) /\ rlog[c] = <<>>)

\* A first run() rendered an element and the render failed; a later run()
\* over that element has rendered nothing and is over.
C8_Witness ==
  \E c1, c2 \in RunCalls :
    /\ c1 < c2 /\ Done(c1) /\ Done(c2)
    /\ Resolved(runs[c2]) /\ Listed(c2) # {} /\ Rendered(c2) = {}
    /\ \E e \in Listed(c2) : LoggedFor({"caught"}, c1, e) # <<>>

\* The record handleError is to append for a failure of a recognised shape.
Normalized(error) ==
  IF isDetailedError(error)
    THEN [str |-> error.str, message |-> error.str, hash |-> error.hash, error |-> error]
    ELSE [str |-> error.message, message |-> error.message, hash |-> error.name,
          error |-> error]

\* The case of C9 for run call c: a finished run() without suppression over
\* a list of elements none of which another run() rendered, where all that
\* was caught are failures of the engine's render, of a recognised shape.
PartialFailureCase(c) ==
  /\ Done(c) /\ Resolved(runs[c]) /\ ~runs[c].opts.suppressErrors
  /\ \A e \in Listed(c) : \A d \in RunCalls : e \in Rendered(d) => d = c
  /\ \A p \in 1..Len(rlog[c]) :
       rlog[c][p].ev = "caught" =>
         \E sh \in {"detailed", "Error"} :
           rlog[c][p].arg = Failure(sh, "engine", c, rlog[c][p].el)

PartialFailureOutcome(c) ==
  LET caught == Logged({"caught"}, c) IN
  /\ \A e \in Listed(c) :
       /\ processed[e]
       /\ Len(LoggedFor({"settled"}, c, e)) = 1
       /\ LET out == LoggedFor({"settled"}, c, e)[1].arg IN
          content[e] = IF out.ok THEN out.value.svg ELSE Source(e)
  /\ caller[c] = IF caught = <<>> THEN Promise("fulfilled", NoValue)
                 ELSE Promise("rejected", Normalized(caught[1].arg))

HookRaised(c) == runs[c].thrown = HookFailure(c) \/ caller[c].value = HookFailure(c)

FlipSuppress(fr) == [fr EXCEPT !.opts.suppressErrors = ~@]
FlipArgument(arg) == [arg EXCEPT !.suppressErrors = ~@]
SameButSuppress(n1, n2) == n2 = [n1 EXCEPT !.frame = FlipSuppress(@)]

\* C10: a finished run() with suppressErrors has returned normally unless
\* the hook raised in run()'s catch block; and every stretch of a run() that
\* can be taken next leaves, with the flag the other way round, the same
\* markers, content, engine calls, errors and hook calls: only what run()'s
\* promise settles with differs.
C10_SuppressedReturns ==
  /\ \A c \in Calls :
       (Done(c) /\ runs[c].opts.suppressErrors)
         => \/ caller[c] = Promise("fulfilled", NoValue)
            \/ caller[c] = Promise("rejected", HookFailure(c))
  /\ ENABLED run(NoArgument) =>
       \A arg \in {a \in RunArguments : ~a.omitted /\ ~a.suppressErrors} :
         SameButSuppress(Start(ncalls + 1, arg), Start(ncalls + 1, FlipArgument(arg)))
  /\ jobs # <<>> =>
       LET j == Head(jobs) IN
       /\ (j.type = "then" /\ j.e # 0) =>
            \A cb \in CallbackOutcomes(j.c, j.e) :
              SameButSuppress(AfterRender(j.c, runs[j.c], j.e, j.out, cb),
                              AfterRender(j.c, FlipSuppress(runs[j.c]), j.e, j.out, cb))
       /\ j.type = "callback" =>
            SameButSuppress(AfterCallback(j.c, runs[j.c], j.out),
                            AfterCallback(j.c, FlipSuppress(runs[j.c]), j.out))
       /\ j.type = "return" =>
            LET with == AfterRunThrowsErrors(j.c, [runs[j.c] EXCEPT !.opts.suppressErrors = TRUE], j.out)
                without == AfterRunThrowsErrors(j.c, [runs[j.c] EXCEPT !.opts.suppressErrors = FALSE], j.out)
            IN /\ with.hook = without.hook
               /\ parseError # "throws" => with.promise = Promise("fulfilled", NoValue)
               /\ (parseError # "throws" /\ ~j.out.ok)
                    => without.promise = Promise("rejected", j.out.value)

\* A run() with suppressErrors collected an error, called the hook from its
\* catch block and returned normally.
C10_Witness ==
  \E c \in Calls :
    /\ Done(c) /\ runs[c].opts.suppressErrors
    /\ Len(runs[c].errors) > 0
    /\ LoggedFor({"hook"}, c, 0) # <<>>
    /\ caller[c] = Promise("fulfilled", NoValue)

\* ---- properties of run(): element source, normalisation, ids ------------

\* `new Error('Nodes and querySelector are both undefined')`
UnresolvedSource == Failure("Error", "Nodes and querySelector are both undefined", 0, 0)

\* C11: a run() given neither a node list nor a selector (no options at
\* all, or an options object with only suppressErrors / postRenderCallback)
\* scans what the default selector finds and does not raise the
\* unresolved-source error.
C11_DefaultSelector ==
  \A c \in RunCalls :
    ~runs[c].opts.hasNodes
      => /\ runs[c].nodes = querySelectorAll
         /\ runs[c].thrown # UnresolvedSource
\* What run call c logs in the step being taken.
NewLog(c) == SubSeq(rlog'[c], Len(rlog[c]) + 1, Len(rlog'[c]))

\* handleError was called with new[p].arg in this step of run call c, in
\* runThrowsErrors' catch block: it appended exactly the record Normalized
\* gives and called the hook, if any, once with `args`.
NormalizedAt(c, new, p, args) ==
  /\ runs'[c].errors = Append(runs[c].errors, Normalized(new[p].arg))
  /\ Len(SelectSeq(new, LAMBDA x : x.ev = "hook")) = IF parseError = "none" THEN 0 ELSE 1
  /\ parseError # "none" =>
       /\ p < Len(new)
       /\ new[p + 1] = REvent("hook", new[p].el, [args |-> args])

NormalizationStep(hooks) ==
  \A c \in Calls :
    \A p \in 1..Len(NewLog(c)) :
      LET error == NewLog(c)[p].arg IN
      (NewLog(c)[p].ev = "caught" /\ parseError \in hooks) =>
        /\ isDetailedError(error) =>
             NormalizedAt(c, NewLog(c), p, <<error.str, error.hash>>)
        /\ (~isDetailedError(error) /\ isError(error)) =>
             NormalizedAt(c, NewLog(c), p, <<error>>)

Ids(c) == [k \in 1..Len(Logged({"render"}, c)) |-> Logged({"render"}, c)[k].arg.id]
RenderedElements(c) == [k \in 1..Len(Logged({"render"}, c)) |-> Logged({"render"}, c)[k].el]

\* The elements of the list of run call c up to the one its loop is at that
\* were not skipped, in document order.
NotSkipped(c) ==
  SelectSeq(SubSeq(runs[c].nodes, 1, runs[c].i),
            LAMBDA e : LoggedFor({"render"}, c, e) # <<>>)

\* C13: in one pass of run() one id is requested of the pass's own
\* generator for each element not skipped and none for a skipped one: the
\* k-th element not skipped (k from 0, document order) is rendered under
\* mermaid-{seed}{k}; the ids of a pass are pairwise distinct, and two
\* passes that rendered equally many elements used the same ids.
C13_IdsOfOnePass ==
  /\ \A c \in RunCalls :
       /\ runs[c].nid = Len(Ids(c))
       /\ RenderedElements(c) = NotSkipped(c)
       /\ \A k \in 1..Len(Ids(c)) :
            Ids(c)[k] = [prefix |-> "mermaid-", suffix |-> deterministicIDSeed \o Decimal(k - 1)]
       /\ \A k, m \in 1..Len(Ids(c)) : k # m => Ids(c)[k] # Ids(c)[m]
  /\ \A c, d \in RunCalls : Len(Ids(c)) = Len(Ids(d)) => Ids(c) = Ids(d)

\* Two passes: the first rendered one element of the document, the second
\* skipped it and rendered the other under the same id; and a pass may have
\* rendered two elements.
C13_Witness ==
  \E c, d \in RunCalls :
    /\ c < d
    /\ Len(Ids(c)) = 1 /\ Len(Ids(d)) = 1
    /\ Len(runs[d].nodes) = NumElements
    /\ RenderedElements(d)[1] = runs[d].nodes[NumElements]
    /\ Ids(c) = Ids(d)
\* ---- properties of run(): failures of the callback and of the binding ----

\* The log entry x of run call c is the catch of a failure of the
\* post-render callback or of bindFunctions.
CallbackOrBindFailure(c, x) ==
  /\ x.ev = "caught"
  /\ x.arg \in {Failure("Error", tag, c, x.el) : tag \in {"callback", "bind"}}

Returned(c) == c \in RunCalls /\ runs[c].pc \in {"return", "done"}

RaisedAt(c, p) ==
  /\ runs[c].thrown = HookFailure(c)
  /\ \A q \in (p + 1)..Len(rlog[c]) : rlog[c][q].ev # "caught"

LoopActive == awaited # {}

\* This step is a submission of a unit by parse() or render().
Submission == ncalls' = ncalls + 1 /\ op'[ncalls'] \in {"parse", "render"}

\* This step resumes the loop after `await f()`.
LoopResumes == LoopActive /\ awaited' # awaited

\* C15: at most one executeQueue loop is active; the flag is set exactly
\* while one is; units are pending only while the flag is set; the flag is
\* cleared exactly when the resumed loop finds nothing pending; a submission
\* made while the flag is clear starts a loop on its unit, and one made
\* while it is set only appends.
C15_RunLoopFlag ==
  /\ [](/\ Cardinality(awaited) <= 1
        /\ executionQueueRunning <=> LoopActive
        /\ executionQueue # <<>> => executionQueueRunning)
  /\ [][/\ (executionQueueRunning /\ ~executionQueueRunning')
             => (LoopResumes /\ executionQueue = <<>>)
        /\ LoopResumes =>
             IF executionQueue = <<>>
               THEN ~executionQueueRunning' /\ awaited' = {}
               ELSE /\ executionQueueRunning'
                    /\ awaited' = {Head(executionQueue)}
                    /\ executionQueue' = Tail(executionQueue)
        /\ Submission =>
             IF executionQueueRunning
               THEN /\ executionQueue' = Append(executionQueue, ncalls')
                    /\ awaited' = awaited /\ executionQueueRunning'
               ELSE /\ executionQueue' = <<>>
                    /\ awaited' = {ncalls'} /\ executionQueueRunning']_vars

\* A unit has run and settled; a later unit, the only other one submitted,
\* is in the engine with nothing pending and no job left: a loop is active
\* again.
C15_Witness ==
  /\ ncalls = 2
  /\ QueueUnits = {1, 2}
  /\ Settled(caller[1])
  /\ awaited = {2} /\ engine = {<<2, 0>>}
  /\ executionQueueRunning /\ executionQueue = <<>> /\ jobs = <<>>
\* ---- properties of run(): failures of an unrecognised shape -------------

Unrecognised(error) == ~isDetailedError(error) /\ ~isError(error)

\* All that run call c caught are failures of an unrecognised shape, and
\* there is one at least.
OnlyUnrecognised(c) ==
  /\ Logged({"caught"}, c) # <<>>
  /\ \A p \in 1..Len(rlog[c]) : rlog[c][p].ev = "caught" => Unrecognised(rlog[c][p].arg)

\* handleError called with an unrecognised value in this step: the hook, if
\* any, is called with that value and nothing is added to the collected
\* errors.
UnrecognisedStep ==
  \A c \in Calls :
    \A p \in 1..Len(NewLog(c)) :
      (NewLog(c)[p].ev = "caught" /\ Unrecognised(NewLog(c)[p].arg)) =>
        /\ runs'[c].errors = runs[c].errors
        /\ Len(SelectSeq(NewLog(c), LAMBDA x : x.ev = "hook"))
             = IF parseError = "none" THEN 0 ELSE 1
        /\ parseError # "none" =>
             /\ p < Len(NewLog(c))
             /\ NewLog(c)[p + 1]
                  = REvent("hook", NewLog(c)[p].el, [args |-> <<NewLog(c)[p].arg>>])

\* run call c, without suppression, returned normally, the elements whose
\* render failed staying marked with their content as it was.
ReturnedUnchanged(c) ==
  /\ caller[c] = Promise("fulfilled", NoValue)
  /\ runs[c].errors = <<>>
  /\ \A p \in 1..Len(rlog[c]) :
       rlog[c][p].ev = "caught" =>
         /\ processed[rlog[c][p].el]
         /\ content[rlog[c][p].el] = Source(rlog[c][p].el)

CalledUnresolved(c) == op[c] = "none" /\ op'[c] = "run" /\ ~Resolved(runs'[c])

\* This step is the return of runThrowsErrors to run() for such a call.
ReturnsUnresolved(c) ==
  op[c] = "run" /\ ~Resolved(runs[c]) /\ runs[c].pc = "return" /\ runs'[c].pc = "done"

\* The call raises the unresolved-source error at once and touches nothing;
\* on return the hook, if any, is called once with that error, and run()
\* raises it unless suppressErrors is set (under a hook in `hooks`).
UnresolvedStep(hooks) ==
  \A c \in Calls :
    /\ CalledUnresolved(c) =>
         /\ processed' = processed /\ content' = content /\ engine' = engine
         /\ runs'[c].nid = 0 /\ runs'[c].errors = <<>> /\ runs'[c].nodes = <<>>
         /\ rlog'[c] = <<>>
         /\ runs'[c].pc = "return" /\ runs'[c].thrown = UnresolvedSource
    /\ ReturnsUnresolved(c) =>
         /\ processed' = processed /\ content' = content /\ engine' = engine
         /\ runs'[c].nid = 0 /\ runs'[c].errors = <<>>
         /\ rlog'[c] = IF parseError = "none" THEN <<>>
                       ELSE <<REvent("hook", 0, [args |-> <<UnresolvedSource>>])>>
         /\ parseError \in hooks =>
              caller'[c] = IF runs[c].opts.suppressErrors THEN Promise("fulfilled", NoValue)
                           ELSE Promise("rejected", UnresolvedSource)

Claimers(e) == {c \in RunCalls : e \in Rendered(c)}

\* Run call c is in flight: suspended in runThrowsErrors.
InFlight(c) == c \in RunCalls /\ runs[c].pc \in {"render", "callback"}

\* C18: however run() calls over overlapping lists interleave, an element
\* that is marked was claimed by exactly one of them, which had it rendered
\* once; an element that is not marked was claimed by none.
C18_ClaimedByOne ==
  \A e \in Elements :
    /\ Cardinality(Claimers(e)) = IF processed[e] THEN 1 ELSE 0
    /\ \A c \in Claimers(e) : Len(LoggedFor({"render"}, c, e)) = 1

\* Two run() calls over the whole document are in flight together, the
\* first having claimed the first element and the second the other.
C18_Witness ==
  \E c, d \in RunCalls :
    /\ c < d
    /\ InFlight(c) /\ InFlight(d)
    /\ Listed(c) = Elements /\ Listed(d) = Elements
    /\ Claimers(1) = {c}
    /\ \A e \in Elements \ {1} : Claimers(e) = {d}
\* ---- properties of the queue: a hook that raises -------------------------

\* C19: whatever the hook does, a unit whose engine call failed under a
\* registered hook has its own promise and its caller's settled by the
\* reaction, and the loop goes on: when no job and no engine call is left,
\* no loop is suspended, the flag is clear and nothing is pending.
C19_ProgressUnderAnyHook ==
  /\ \A c \in QueueUnits :
       Positions({"hook"}, c) # {} => (Settled(inner[c]) /\ Settled(caller[c]))
  /\ Quiescent => (~LoopActive /\ ~executionQueueRunning /\ executionQueue = <<>>)
\* ---- properties of run(): how often the hook is called ------------------

\* All that run call c caught are failures of the engine's render, of a
\* recognised shape.
RecognisedRenderFailures(c) ==
  \A p \in 1..Len(rlog[c]) :
    rlog[c][p].ev = "caught" =>
      \E sh \in {"detailed", "Error"} : rlog[c][p].arg = Failure(sh, "engine", c, rlog[c][p].el)

\* The hook call handleError makes for a failure of a recognised shape.
CollectionCall(x) ==
  REvent("hook", x.el,
         [args |-> IF isDetailedError(x.arg) THEN <<x.arg.str, x.arg.hash>> ELSE <<x.arg>>])

\* C20: under a registered hook that returns, a run() of whose elements n
\* >= 1 failed to render with a recognised shape has called the hook n + 1
\* times: once for each failing element as it was collected, in document
\* order, then once from run()'s catch block with the first collected
\* error; a run() in which nothing failed has not called it.
C20_HookCalls ==
  \A c \in RunCalls :
    (Done(c) /\ Resolved(runs[c]) /\ RecognisedRenderFailures(c)) =>
      LET caught == Logged({"caught"}, c)
          hooks == Logged({"hook"}, c)
          n == Len(caught)
      IN IF n = 0 THEN hooks = <<>>
         ELSE /\ Len(hooks) = n + 1
              /\ \A k \in 1..n : hooks[k] = CollectionCall(caught[k])
              /\ \A k, m \in 1..n : k < m => caught[k].el < caught[m].el
              /\ hooks[n + 1] = REvent("hook", 0, [args |-> <<Normalized(caught[1].arg)>>])

\* The render of both elements of a run() failed, the first with str and
\* hash, the second with an Error: the hook was called three times.
C20_Witness ==
  \E c \in RunCalls :
    /\ Done(c) /\ Resolved(runs[c]) /\ RecognisedRenderFailures(c)
    /\ Len(Logged({"caught"}, c)) = 2
    /\ isDetailedError(Logged({"caught"}, c)[1].arg)
    /\ isError(Logged({"caught"}, c)[2].arg)
    /\ Len(Logged({"hook"}, c)) = 3

====
